---- MODULE Spec2Model ----
(***************************************************************************)
(* A model of myrientdl.py: the concurrent download engine                  *)
(* (download_links / download_link) and the ranking path (fuzzy_match).    *)
(***************************************************************************)
EXTENDS Integers, Sequences, FiniteSets, TLC

\* ---------------------------------------------------------------- bounds
MaxLinks   == 2      \* longest list handed to download_links
MaxWorkers == 2      \* largest --concurrent value
MaxCandidates == 3   \* longest list of page links handed to fuzzy_match

\* --------------------------------------------------------------- program
DefaultRetries == 3  \* download_link's retries=3; attempt limits 1..3 are run

\* ------------------------------------------------------------ data model
\* A URL is kept as the two parts download_link looks at: everything before
\* the last '/', and url.split('/')[-1] (empty for a URL that ends in '/').
URLs ==
  { [base |-> "http://a", last |-> "x.zip"],
    [base |-> "http://b", last |-> ""] }

\* r.headers.get('Content-Disposition'): absent, present without a
\* filename="..." part, or present with one; the server chooses the name,
\* which may be an absolute path.
ContentDispositions ==
  { [present |-> FALSE, filenames |-> <<>>],
    [present |-> TRUE,  filenames |-> <<>>],
    [present |-> TRUE,  filenames |-> <<"y.zip">>],
    [present |-> TRUE,  filenames |-> <<"/tmp/y.zip">>] }

\* the file names of the model that are absolute paths
AbsoluteNames == { "/tmp/y.zip" }

DestDir == "dest"
NoFile  == [dir |-> "", name |-> ""]

\* os.path.join(path, name): an absolute name replaces path
PathJoin(path, name) ==
  IF name \in AbsoluteNames
    THEN [dir |-> "", name |-> name]
    ELSE [dir |-> path, name |-> name]

\* lines 90-95: the destination of one attempt
LocalFilename(url, path, cd) ==
  IF cd.present
    THEN IF cd.filenames # <<>>
           THEN PathJoin(path, cd.filenames[1])
           ELSE PathJoin(path, url.last)
    ELSE PathJoin(path, url.last)

\* line 117: the line appended to the error log
LogEntry(url, n, e) == [url |-> url, attempts |-> n, error |-> e]

\* a line left in the error log by an earlier run, for a URL not in this one
OldEntry ==
  [url |-> [base |-> "http://old", last |-> "z.zip"], attempts |-> DefaultRetries,
   error |-> "RequestException"]

RECURSIVE SeqsUpTo(_, _)
SeqsUpTo(S, n) ==
  IF n = 0 THEN { <<>> }
  ELSE LET shorter == SeqsUpTo(S, n - 1)
       IN shorter \cup { Append(s, x) : s \in { t \in shorter : Len(t) = n - 1 }, x \in S }

\* ----------------------------------------------------------- ranking path
\* An href is kept as its scheme and the rest of the URL.
Href1 == [scheme |-> "https", rest |-> "//h/mario.zip"]
Href2 == [scheme |-> "https", rest |-> "//h/other.zip"]
Href3 == [scheme |-> "ftp",   rest |-> "//h/mario.zip"]

\* the {href, text} records extract_links produces
PageLinks ==
  { [href |-> Href1, text |-> "Super Mario Bros (USA).zip"],
    [href |-> Href2, text |-> "Unrelated File.zip"],
    [href |-> Href3, text |-> "mirror"] }

Keywords == { "mario", "zelda" }

\* the keyword files that are run
KeywordFiles == { << "mario" >>, << "mario", "zelda" >>, << "mario", "mario" >> }

\* fuzz.partial_ratio returns an integer in 0..100
ScoreVals == { 0, 50, 100 }

\* --topn: None (the default) or an integer
TopNone == [given |-> FALSE, n |-> 0]
TopNs == { TopNone } \cup { [given |-> TRUE, n |-> k] : k \in { -1, 0, 1, 2 } }

\* a cut that keeps one element too many
SliceOneMore(s, topn) ==
  IF ~topn.given THEN s
  ELSE SubSeq(s, 1, IF topn.n + 1 < Len(s) THEN topn.n + 1 ELSE Len(s))

\* s[:topn] of Python
Slice(s, topn) ==
  IF ~topn.given THEN s
  ELSE IF topn.n >= 0
         THEN SubSeq(s, 1, IF topn.n < Len(s) THEN topn.n ELSE Len(s))
         ELSE SubSeq(s, 1, IF Len(s) + topn.n > 0 THEN Len(s) + topn.n ELSE 0)

\* line 63
Matches(score) == score > 0

\* an insertion that puts the new pair in front of the pairs of equal score
InsertDescUnstable(sorted, x) ==
  LET k == Cardinality({ m \in 1 .. Len(sorted) : sorted[m][1] > x[1] })
  IN SubSeq(sorted, 1, k) \o << x >> \o SubSeq(sorted, k + 1, Len(sorted))

\* line 65: where list.sort(reverse=True, key=score) leaves a pair that came
\* after all the pairs of sorted in the list: behind every pair of greater
\* or equal score
InsertDesc(sorted, x) ==
  LET k == Cardinality({ m \in 1 .. Len(sorted) : sorted[m][1] >= x[1] })
  IN SubSeq(sorted, 1, k) \o << x >> \o SubSeq(sorted, k + 1, Len(sorted))

\* line 65: the stable sort by score, descending
RECURSIVE SortDesc(_)
SortDesc(s) ==
  IF s = << >> THEN << >>
  ELSE InsertDesc(SortDesc(SubSeq(s, 1, Len(s) - 1)), s[Len(s)])

\* lines 59-64: the (score, href) pairs of the links that score above 0
RECURSIVE ScoredLinks(_, _)
ScoredLinks(ls, score) ==
  IF ls = << >> THEN << >>
  ELSE LET rest == ScoredLinks(SubSeq(ls, 1, Len(ls) - 1), score)
           link == ls[Len(ls)]
       IN IF Matches(score[link])
            THEN Append(rest, << score[link], link.href >>)
            ELSE rest

\* lines 58-66; score is partial_ratio for the keyword of the call
fuzzy_match(ls, score, topn) ==
  LET cut == Slice(SortDesc(ScoredLinks(ls, score)), topn)
  IN [k \in 1 .. Len(cut) |-> cut[k][2]]

\* line 140: keyword_links[keyword] = matched_links on an insertion-ordered dict
DictSet(d, key, value) ==
  IF \E k \in 1 .. Len(d) : d[k].keyword = key
    THEN [k \in 1 .. Len(d) |->
            IF d[k].keyword = key THEN [keyword |-> key, links |-> value] ELSE d[k]]
    ELSE Append(d, [keyword |-> key, links |-> value])

\* ------------------------------------------------------ report and link file
\* A line of a text file is the sequence of its pieces; it ends with "\n".
\* the href as the string save_links writes
HrefText(h) == << h.scheme, ":", h.rest >>

\* line 71
HeaderLine(keyword) == << "--- ", keyword, " ---", "\n" >>

\* line 73
UrlLine(h) == Append(HrefText(h), "\n")

\* line 74
BlankLine == << "\n" >>

\* lines 71-74: the block of one keyword
Block(entry) ==
  << HeaderLine(entry.keyword) >>
    \o [k \in 1 .. Len(entry.links) |-> UrlLine(entry.links[k])]
    \o << BlankLine >>

\* lines 69-74: the lines save_links writes, the file opened with 'w'
RECURSIVE save_links(_)
save_links(d) ==
  IF d = << >> THEN << >>
  ELSE save_links(SubSeq(d, 1, Len(d) - 1)) \o Block(d[Len(d)])

Whitespace == { " ", "\n" }

\* str.strip()
RECURSIVE Strip(_)
Strip(l) ==
  IF l = << >> THEN l
  ELSE IF l[1] \in Whitespace THEN Strip(SubSeq(l, 2, Len(l)))
  ELSE IF l[Len(l)] \in Whitespace THEN Strip(SubSeq(l, 1, Len(l) - 1))
  ELSE l

\* the strings of the model that begin with "//"
SlashSlash == { "//h/mario.zip", "//h/other.zip" }

\* line 80: re.match(r'^https?://', text)
MatchesHttp(l) ==
  /\ Len(l) >= 3
  /\ l[1] \in { "http", "https" }
  /\ l[2] = ":"
  /\ l[3] \in SlashSlash

\* a read_links that returns the matching lines as they are in the file
RECURSIVE ReadLinesUnstripped(_)
ReadLinesUnstripped(lines) ==
  IF lines = << >> THEN << >>
  ELSE LET rest == ReadLinesUnstripped(SubSeq(lines, 1, Len(lines) - 1))
           line == lines[Len(lines)]
       IN IF MatchesHttp(Strip(line)) THEN Append(rest, line) ELSE rest

\* line 80: the stripped lines that match, in file order
RECURSIVE ReadLines(_)
ReadLines(lines) ==
  IF lines = << >> THEN << >>
  ELSE LET rest == ReadLines(SubSeq(lines, 1, Len(lines) - 1))
           line == lines[Len(lines)]
       IN IF MatchesHttp(Strip(line)) THEN Append(rest, Strip(line)) ELSE rest

\* a file that is not there
Absent == [exists |-> FALSE, lines |-> << >>]

\* the report an earlier run left under the name of args.output
OldReport ==
  [exists |-> TRUE,
   lines |-> << HeaderLine("old"), UrlLine(Href2), UrlLine(Href1), BlankLine >>]

\* -l/--linkfile: not given, a file that does not exist, or args.output
LinkFileArgs == { "none", "missing.txt", "links.txt" }

\* ----------------------------------------------------------------- state
VARIABLES
  links,          \* download_links: the list of URLs
  max_workers,    \* download_links: the pool size
  retries,        \* download_link: the attempt limit
  path,           \* the destination directory
  mainpc,         \* where download_links is
  dir_exists,     \* os.makedirs(path) has run
  submitted,      \* number of executor.submit calls made
  work_queue,     \* the executor's queue of submitted, not yet started tasks
  num_threads,    \* worker threads the executor has started
  worker,         \* worker thread -> the task it runs (0: idle)
  tpc,            \* task -> where its download_link call is
  attempt,        \* task -> download_link's attempt counter
  requests_made,  \* task -> number of requests.get calls issued
  notices,        \* task -> the retry notices printed, by number
  local_filename, \* task -> destination of the current attempt
  last_err,       \* task -> the exception of the final failed attempt
  error_log,      \* the lines of the error log file
  results,        \* the futures as_completed has yielded, in order
  page_links,     \* main: the links extract_links returned
  keywords,       \* main: the keywords read from the keyword file
  topn_arg,       \* main: args.topn
  partial_ratio,  \* the score fuzz.partial_ratio gives a keyword and a link
  kw_done,        \* main: keywords the loop of lines 138-140 has handled
  matched_links,  \* main: the result of the latest fuzzy_match call
  keyword_links,  \* main: the dict of results, in insertion order
  phase,          \* where main is
  args_ranking,   \* main: args.url and args.keywords are both given
  args_download,  \* main: args.download
  args_linkfile,  \* main: args.linkfile
  output_file,    \* the file named by args.output
  links_to_download, \* main: what read_links returned
  exit_message    \* the message sys.exit was called with ("": not called)

dvars == << links, max_workers, retries, path, mainpc, dir_exists, submitted,
            work_queue, num_threads, worker, tpc, attempt, requests_made,
            notices, local_filename, last_err, error_log, results >>

rvars == << page_links, keywords, topn_arg, partial_ratio, kw_done,
            matched_links, keyword_links, phase, args_ranking, args_download,
            args_linkfile, output_file, links_to_download, exit_message >>

vars == << dvars, rvars >>

Tasks == 1 .. Len(links)

Running  == { "get", "open", "write", "logopen", "logwrite" }
Finished == { "success", "failure", "raised" }

InFlight == { i \in Tasks : tpc[i] \in Running }
Yielded  == { results[k] : k \in 1 .. Len(results) }

\* the thread that runs task i
WorkerOf(i) == CHOOSE w \in DOMAIN worker : worker[w] = i

\* main has read the link file and called download_links (line 148); the
\* ranking path was not asked for
NoRanking ==
  /\ phase = "download"
  /\ args_ranking = FALSE
  /\ args_download = TRUE
  /\ args_linkfile = "links.txt"
  /\ output_file = OldReport
  /\ links_to_download = << >>
  /\ exit_message = ""
  /\ page_links = << >>
  /\ keywords = << >>
  /\ topn_arg = TopNone
  /\ partial_ratio = [kl \in Keywords \X PageLinks |-> 0]
  /\ kw_done = 0
  /\ matched_links = << >>
  /\ keyword_links = << >>

DownloadInit ==
  /\ links \in SeqsUpTo(URLs, MaxLinks)
  /\ max_workers \in 1 .. MaxWorkers
  /\ retries \in 1 .. DefaultRetries
  /\ path = DestDir
  /\ mainpc = "makedirs"
  /\ dir_exists = FALSE
  /\ submitted = 0
  /\ work_queue = << >>
  /\ num_threads = 0
  /\ worker = [w \in 1 .. Len(links) |-> 0]
  /\ tpc = [i \in 1 .. Len(links) |-> "unsubmitted"]
  /\ attempt = [i \in 1 .. Len(links) |-> 0]
  /\ requests_made = [i \in 1 .. Len(links) |-> 0]
  /\ notices = [i \in 1 .. Len(links) |-> << >>]
  /\ local_filename = [i \in 1 .. Len(links) |-> NoFile]
  /\ last_err = [i \in 1 .. Len(links) |-> "none"]
  /\ error_log = << OldEntry >>
  /\ results = << >>

Init == DownloadInit /\ NoRanking

\* ------------------------------------------------------- download_links
\* a download_links that goes on to submit without creating the directory
MakedirsForgotten ==
  /\ mainpc = "makedirs"
  /\ mainpc' = IF Len(links) = 0 THEN "shutdown" ELSE "submit"
  /\ UNCHANGED << links, max_workers, retries, path, dir_exists, submitted,
                  work_queue, num_threads, worker, tpc, attempt,
                  requests_made, notices, local_filename, last_err,
                  error_log, results >>
  /\ UNCHANGED rvars

\* line 122
Makedirs ==
  /\ mainpc = "makedirs"
  /\ dir_exists' = TRUE
  /\ mainpc' = IF Len(links) = 0 THEN "shutdown" ELSE "submit"
  /\ UNCHANGED << links, max_workers, retries, path, submitted, work_queue,
                  num_threads, worker, tpc, attempt, requests_made, notices,
                  local_filename, last_err, error_log, results >>
  /\ UNCHANGED rvars

\* a pool that starts a thread for every submitted task
AdjustThreadCountUnbounded(nt, mw) == nt + 1

\* ThreadPoolExecutor.submit starts one more thread while there are fewer
\* than max_workers
AdjustThreadCount(nt, mw) == IF nt < mw THEN nt + 1 ELSE nt

\* line 124: one executor.submit per element of links
Submit ==
  /\ mainpc = "submit"
  /\ submitted < Len(links)
  /\ LET i == submitted + 1 IN
       /\ submitted' = i
       /\ tpc' = [tpc EXCEPT ![i] = "queued"]
       /\ work_queue' = Append(work_queue, i)
       /\ num_threads' = AdjustThreadCount(num_threads, max_workers)
       /\ mainpc' = IF i = Len(links) THEN "as_completed" ELSE "submit"
  /\ UNCHANGED << links, max_workers, retries, path, dir_exists, worker,
                  attempt, requests_made, notices, local_filename, last_err,
                  error_log, results >>
  /\ UNCHANGED rvars

\* a thread that takes the next task whether or not it is running one
WorkerTakeBusy(w) ==
  /\ w \in 1 .. num_threads
  /\ w \in DOMAIN worker
  /\ work_queue # << >>
  /\ LET i == Head(work_queue) IN
       /\ worker' = [worker EXCEPT ![w] = i]
       /\ tpc' = [tpc EXCEPT ![i] = "get"]
       /\ attempt' = [attempt EXCEPT ![i] = 0]
  /\ work_queue' = Tail(work_queue)
  /\ UNCHANGED << links, max_workers, retries, path, mainpc, dir_exists,
                  submitted, num_threads, requests_made, notices,
                  local_filename, last_err, error_log, results >>
  /\ UNCHANGED rvars

\* an idle worker thread takes the oldest queued task and enters
\* download_link; the threads are interchangeable, and the idle thread of
\* the lowest number stands for whichever idle thread gets the task
WorkerTake(w) ==
  /\ w \in 1 .. num_threads
  /\ w \in DOMAIN worker
  /\ worker[w] = 0
  /\ \A v \in 1 .. w - 1 : worker[v] # 0
  /\ work_queue # << >>
  /\ LET i == Head(work_queue) IN
       /\ worker' = [worker EXCEPT ![w] = i]
       /\ tpc' = [tpc EXCEPT ![i] = "get"]
       /\ attempt' = [attempt EXCEPT ![i] = 0]
  /\ work_queue' = Tail(work_queue)
  /\ UNCHANGED << links, max_workers, retries, path, mainpc, dir_exists,
                  submitted, num_threads, requests_made, notices,
                  local_filename, last_err, error_log, results >>
  /\ UNCHANGED rvars

\* ---------------------------------------------------------- download_link
\* a notice that prints the attempt counter before it is incremented
RetryNoticeZeroBased(printed, a) == Append(printed, a - 1)

\* a retry that prints nothing
RetryNoticeDropped(printed, a) == printed

\* line 119
RetryNotice(printed, a) == Append(printed, a)

\* a limit test that is true after the first failed attempt
AttemptsExhaustedEarly(a, r) == a <= r

\* line 115
AttemptsExhausted(a, r) == a = r

\* lines 113-119: the except clause, entered by task i with exception e
ExceptClause(i, e) ==
  LET a == attempt[i] + 1 IN
  /\ attempt' = [attempt EXCEPT ![i] = a]
  /\ local_filename' = [local_filename EXCEPT ![i] = NoFile]
  /\ IF AttemptsExhausted(a, retries)
       THEN /\ tpc' = [tpc EXCEPT ![i] = "logopen"]
            /\ last_err' = [last_err EXCEPT ![i] = e]
            /\ notices' = notices
       ELSE /\ tpc' = [tpc EXCEPT ![i] = "get"]
            /\ last_err' = last_err
            /\ notices' = [notices EXCEPT ![i] = RetryNotice(notices[i], a)]

\* lines 88-95: the request fails (network error or HTTP error status)
GetFail(i) ==
  /\ tpc[i] = "get"
  /\ attempt[i] < retries
  /\ requests_made' = [requests_made EXCEPT ![i] = @ + 1]
  /\ ExceptClause(i, "RequestException")
  /\ UNCHANGED << links, max_workers, retries, path, mainpc, dir_exists,
                  submitted, work_queue, num_threads, worker, error_log,
                  results >>
  /\ UNCHANGED rvars

\* lines 88-100: the request succeeds and the destination is derived
GetOk(i) ==
  /\ tpc[i] = "get"
  /\ attempt[i] < retries
  /\ requests_made' = [requests_made EXCEPT ![i] = @ + 1]
  /\ \E cd \in ContentDispositions :
       local_filename' =
         [local_filename EXCEPT ![i] = LocalFilename(links[i], path, cd)]
  /\ tpc' = [tpc EXCEPT ![i] = "open"]
  /\ UNCHANGED << links, max_workers, retries, path, mainpc, dir_exists,
                  submitted, work_queue, num_threads, worker, attempt,
                  notices, last_err, error_log, results >>
  /\ UNCHANGED rvars

\* line 101: open(local_filename, 'wb') succeeds; an empty name is the
\* directory itself and cannot be opened
OpenOk(i) ==
  /\ tpc[i] = "open"
  /\ local_filename[i].name # ""
  /\ tpc' = [tpc EXCEPT ![i] = "write"]
  /\ UNCHANGED << links, max_workers, retries, path, mainpc, dir_exists,
                  submitted, work_queue, num_threads, worker, attempt,
                  requests_made, notices, local_filename, last_err,
                  error_log, results >>
  /\ UNCHANGED rvars

\* line 101: open(local_filename, 'wb') raises
OpenFail(i) ==
  /\ tpc[i] = "open"
  /\ ExceptClause(i, "OSError")
  /\ UNCHANGED << links, max_workers, retries, path, mainpc, dir_exists,
                  submitted, work_queue, num_threads, worker, requests_made,
                  error_log, results >>
  /\ UNCHANGED rvars

\* lines 109-112: every chunk is written, the file is closed, Success returned
WriteOk(i) ==
  /\ tpc[i] = "write"
  /\ tpc' = [tpc EXCEPT ![i] = "success"]
  /\ worker' = [worker EXCEPT ![WorkerOf(i)] = 0]
  /\ UNCHANGED << links, max_workers, retries, path, mainpc, dir_exists,
                  submitted, work_queue, num_threads, attempt, requests_made,
                  notices, local_filename, last_err, error_log, results >>
  /\ UNCHANGED rvars

\* lines 109-111: reading or writing a chunk raises; the file is closed
WriteFail(i) ==
  /\ tpc[i] = "write"
  /\ \E e \in { "RequestException", "OSError" } : ExceptClause(i, e)
  /\ UNCHANGED << links, max_workers, retries, path, mainpc, dir_exists,
                  submitted, work_queue, num_threads, worker, requests_made,
                  error_log, results >>
  /\ UNCHANGED rvars

\* line 116: open(error_log, 'a') succeeds
LogOpenOk(i) ==
  /\ tpc[i] = "logopen"
  /\ tpc' = [tpc EXCEPT ![i] = "logwrite"]
  /\ UNCHANGED << links, max_workers, retries, path, mainpc, dir_exists,
                  submitted, work_queue, num_threads, worker, attempt,
                  requests_made, notices, local_filename, last_err,
                  error_log, results >>
  /\ UNCHANGED rvars

\* line 116: open(error_log, 'a') raises inside the except clause; nothing
\* catches it and the call ends with the exception
LogOpenFail(i) ==
  /\ tpc[i] = "logopen"
  /\ tpc' = [tpc EXCEPT ![i] = "raised"]
  /\ last_err' = [last_err EXCEPT ![i] = "OSError"]
  /\ worker' = [worker EXCEPT ![WorkerOf(i)] = 0]
  /\ UNCHANGED << links, max_workers, retries, path, mainpc, dir_exists,
                  submitted, work_queue, num_threads, attempt, requests_made,
                  notices, local_filename, error_log, results >>
  /\ UNCHANGED rvars

\* lines 117-118: the line is written, the log closed, Failure returned
LogWrite(i) ==
  /\ tpc[i] = "logwrite"
  /\ error_log' = Append(error_log, LogEntry(links[i], retries, last_err[i]))
  /\ tpc' = [tpc EXCEPT ![i] = "failure"]
  /\ worker' = [worker EXCEPT ![WorkerOf(i)] = 0]
  /\ UNCHANGED << links, max_workers, retries, path, mainpc, dir_exists,
                  submitted, work_queue, num_threads, attempt, requests_made,
                  notices, local_filename, last_err, results >>
  /\ UNCHANGED rvars

\* ------------------------------------------- download_links, collecting
\* a loop over the futures in submission order, result() waiting for each
CollectInOrder(i) ==
  /\ mainpc = "as_completed"
  /\ i \in Tasks
  /\ i = Len(results) + 1
  /\ tpc[i] \in { "success", "failure" }
  /\ results' = Append(results, i)
  /\ mainpc' = IF Len(results) + 1 = Len(links) THEN "shutdown" ELSE "as_completed"
  /\ UNCHANGED << links, max_workers, retries, path, dir_exists, submitted,
                  work_queue, num_threads, worker, tpc, attempt,
                  requests_made, notices, local_filename, last_err,
                  error_log >>
  /\ UNCHANGED rvars

\* lines 125-127: as_completed yields a finished future, result() returns
Collect(i) ==
  /\ mainpc = "as_completed"
  /\ i \in Tasks
  /\ tpc[i] \in { "success", "failure" }
  /\ i \notin Yielded
  /\ results' = Append(results, i)
  /\ mainpc' = IF Len(results) + 1 = Len(links) THEN "shutdown" ELSE "as_completed"
  /\ UNCHANGED << links, max_workers, retries, path, dir_exists, submitted,
                  work_queue, num_threads, worker, tpc, attempt,
                  requests_made, notices, local_filename, last_err,
                  error_log >>
  /\ UNCHANGED rvars

\* line 126: the yielded future holds an exception and result() raises it
CollectRaise(i) ==
  /\ mainpc = "as_completed"
  /\ i \in Tasks
  /\ tpc[i] = "raised"
  /\ i \notin Yielded
  /\ mainpc' = "unwinding"
  /\ UNCHANGED << links, max_workers, retries, path, dir_exists, submitted,
                  work_queue, num_threads, worker, tpc, attempt,
                  requests_made, notices, local_filename, last_err,
                  error_log, results >>
  /\ UNCHANGED rvars

\* line 123: leaving the with block after the loop; every task has finished
Shutdown ==
  /\ mainpc = "shutdown"
  /\ mainpc' = "returned"
  /\ UNCHANGED << links, max_workers, retries, path, dir_exists, submitted,
                  work_queue, num_threads, worker, tpc, attempt,
                  requests_made, notices, local_filename, last_err,
                  error_log, results >>
  /\ UNCHANGED rvars

\* line 123: leaving the with block with an exception; shutdown(wait=True)
\* joins the workers, then the exception leaves download_links
ShutdownRaise ==
  /\ mainpc = "unwinding"
  /\ \A i \in Tasks : tpc[i] \in Finished
  /\ mainpc' = "raised"
  /\ UNCHANGED << links, max_workers, retries, path, dir_exists, submitted,
                  work_queue, num_threads, worker, tpc, attempt,
                  requests_made, notices, local_filename, last_err,
                  error_log, results >>
  /\ UNCHANGED rvars

\* one step of download_links itself
MainStep ==
  \/ Makedirs
  \/ Submit
  \/ \E i \in Tasks : Collect(i)
  \/ \E i \in Tasks : CollectRaise(i)
  \/ Shutdown
  \/ ShutdownRaise

\* one step of the pool: a worker thread starts a queued task
PoolStep == \E w \in 1 .. MaxLinks : WorkerTake(w)

\* one step of the download_link call of task i
TaskStep(i) ==
  /\ i \in Tasks
  /\ \/ GetFail(i)
     \/ GetOk(i)
     \/ OpenOk(i)
     \/ OpenFail(i)
     \/ WriteOk(i)
     \/ WriteFail(i)
     \/ LogOpenOk(i)
     \/ LogOpenFail(i)
     \/ LogWrite(i)

Next ==
  \/ Makedirs
  \/ Submit
  \/ \E w \in 1 .. MaxLinks : WorkerTake(w)
  \/ \E i \in Tasks : GetFail(i)
  \/ \E i \in Tasks : GetOk(i)
  \/ \E i \in Tasks : OpenOk(i)
  \/ \E i \in Tasks : OpenFail(i)
  \/ \E i \in Tasks : WriteOk(i)
  \/ \E i \in Tasks : WriteFail(i)
  \/ \E i \in Tasks : LogOpenOk(i)
  \/ \E i \in Tasks : LogOpenFail(i)
  \/ \E i \in Tasks : LogWrite(i)
  \/ \E i \in Tasks : Collect(i)
  \/ \E i \in Tasks : CollectRaise(i)
  \/ Shutdown
  \/ ShutdownRaise

Spec == Init /\ [][Next]_vars

\* Every thread keeps being scheduled and every attempt terminates: the main
\* thread, the pool's workers and each running download_link call take
\* their next step.
FairSpec ==
  /\ Spec
  /\ WF_vars(MainStep)
  /\ WF_vars(PoolStep)
  /\ \A i \in 1 .. MaxLinks : WF_vars(TaskStep(i))

\* ------------------------------------------------- main, the ranking path
\* no download has been asked for
NoDownload ==
  /\ links = << >>
  /\ max_workers = 1
  /\ retries = DefaultRetries
  /\ path = DestDir
  /\ mainpc = "makedirs"
  /\ dir_exists = FALSE
  /\ submitted = 0
  /\ work_queue = << >>
  /\ num_threads = 0
  /\ worker = << >>
  /\ tpc = << >>
  /\ attempt = << >>
  /\ requests_made = << >>
  /\ notices = << >>
  /\ local_filename = << >>
  /\ last_err = << >>
  /\ error_log = << OldEntry >>
  /\ results = << >>

\* lines 133-137: the keywords, the page's links and --topn; the scores of a
\* keyword the file does not hold are never asked for
RankingInputs ==
  /\ page_links \in SeqsUpTo(PageLinks, MaxCandidates)
  /\ keywords \in KeywordFiles
  /\ topn_arg \in TopNs
  /\ partial_ratio \in [Keywords \X PageLinks -> ScoreVals]
  /\ \A kl \in Keywords \X PageLinks :
       (\A k \in 1 .. Len(keywords) : keywords[k] # kl[1]) => partial_ratio[kl] = 0

\* a run that ranks, writes the report and downloads from it:
\* -u URL -kw FILE -o links.txt -d -l links.txt
RankInit ==
  /\ RankingInputs
  /\ kw_done = 0
  /\ matched_links = << >>
  /\ keyword_links = << >>
  /\ phase = "rank"
  /\ args_ranking = TRUE
  /\ args_download = TRUE
  /\ args_linkfile = "links.txt"
  /\ output_file = OldReport
  /\ links_to_download = << >>
  /\ exit_message = ""
  /\ NoDownload

\* partial_ratio for one keyword, as a function of the link
ScoreFor(keyword) == [l \in PageLinks |-> partial_ratio[<< keyword, l >>]]

\* lines 138-140: the loop body for the next keyword
RankKeyword ==
  /\ phase = "rank"
  /\ kw_done < Len(keywords)
  /\ LET keyword == keywords[kw_done + 1]
         matched == fuzzy_match(page_links, ScoreFor(keyword), topn_arg)
     IN /\ matched_links' = matched
        /\ keyword_links' = DictSet(keyword_links, keyword, matched)
  /\ kw_done' = kw_done + 1
  /\ UNCHANGED << page_links, keywords, topn_arg, partial_ratio, phase,
                  args_ranking, args_download, args_linkfile, output_file,
                  links_to_download, exit_message >>
  /\ UNCHANGED dvars

\* line 142: after the loop, save_links(keyword_links, args.output)
SaveLinks ==
  /\ phase = "rank"
  /\ kw_done = Len(keywords)
  /\ output_file' = [exists |-> TRUE, lines |-> save_links(keyword_links)]
  /\ phase' = "check"
  /\ UNCHANGED << page_links, keywords, topn_arg, partial_ratio, kw_done,
                  matched_links, keyword_links, args_ranking, args_download,
                  args_linkfile, links_to_download, exit_message >>
  /\ UNCHANGED dvars

\* line 144: no -d, main returns
NoDownloadAsked ==
  /\ phase = "check"
  /\ ~args_download
  /\ phase' = "done"
  /\ UNCHANGED << page_links, keywords, topn_arg, partial_ratio, kw_done,
                  matched_links, keyword_links, args_ranking, args_download,
                  args_linkfile, output_file, links_to_download, exit_message >>
  /\ UNCHANGED dvars

\* lines 145-146: -d without -l
ExitNoLinkFile ==
  /\ phase = "check"
  /\ args_download
  /\ args_linkfile = "none"
  /\ phase' = "exit"
  /\ exit_message' = "Error: Link file is required for downloading."
  /\ UNCHANGED << page_links, keywords, topn_arg, partial_ratio, kw_done,
                  matched_links, keyword_links, args_ranking, args_download,
                  args_linkfile, output_file, links_to_download >>
  /\ UNCHANGED dvars

\* the file -l names, as it is on disk
LinkFile ==
  IF args_linkfile = "links.txt" THEN output_file ELSE Absent

\* lines 147, 78-82: the link file is not there
ReadLinksNotFound ==
  /\ phase = "check"
  /\ args_download
  /\ args_linkfile # "none"
  /\ ~LinkFile.exists
  /\ phase' = "exit"
  /\ exit_message' = "Error: Link file not found."
  /\ UNCHANGED << page_links, keywords, topn_arg, partial_ratio, kw_done,
                  matched_links, keyword_links, args_ranking, args_download,
                  args_linkfile, output_file, links_to_download >>
  /\ UNCHANGED dvars

\* lines 147-148, 78-80: the link file is read and download_links called
ReadLinks ==
  /\ phase = "check"
  /\ args_download
  /\ args_linkfile # "none"
  /\ LinkFile.exists
  /\ links_to_download' = ReadLines(LinkFile.lines)
  /\ phase' = "download"
  /\ UNCHANGED << page_links, keywords, topn_arg, partial_ratio, kw_done,
                  matched_links, keyword_links, args_ranking, args_download,
                  args_linkfile, output_file, exit_message >>
  /\ UNCHANGED dvars

RankNext ==
  \/ RankKeyword
  \/ SaveLinks
  \/ ReadLinks

RankSpec == RankInit /\ [][RankNext]_vars

\* ------------------------------------------------- main, every command line
\* every combination of -u/-kw, -d and -l, with or without an earlier
\* report on disk; the ranking inputs are those of one keyword and no --topn
MainInit ==
  /\ args_ranking \in BOOLEAN
  /\ args_download \in BOOLEAN
  /\ args_linkfile \in LinkFileArgs
  /\ output_file \in { Absent, OldReport }
  /\ IF args_ranking
       THEN /\ RankingInputs
            /\ keywords = << "mario" >>
            /\ topn_arg = TopNone
       ELSE /\ page_links = << >>
            /\ keywords = << >>
            /\ topn_arg = TopNone
            /\ partial_ratio = [kl \in Keywords \X PageLinks |-> 0]
  /\ phase = IF args_ranking THEN "rank" ELSE "check"
  /\ kw_done = 0
  /\ matched_links = << >>
  /\ keyword_links = << >>
  /\ links_to_download = << >>
  /\ exit_message = ""
  /\ NoDownload

MainNext ==
  \/ RankKeyword
  \/ SaveLinks
  \/ NoDownloadAsked
  \/ ExitNoLinkFile
  \/ ReadLinksNotFound
  \/ ReadLinks

MainSpec == MainInit /\ [][MainNext]_vars

TypeOK ==
  /\ mainpc \in { "makedirs", "submit", "as_completed", "shutdown",
                  "unwinding", "returned", "raised" }
  /\ \A i \in Tasks : tpc[i] \in Running \cup Finished \cup { "unsubmitted", "queued" }
  /\ \A i \in Tasks : attempt[i] \in 0 .. retries

\* ------------------------------------------------------------ properties
\* the lines of the error log written by this batch
BatchEntries == SelectSeq(error_log, LAMBDA e : e # OldEntry)

EntriesNaming(u) == Len(SelectSeq(BatchEntries, LAMBDA e : e.url = u))

TasksOf(u, states) == { i \in Tasks : links[i] = u /\ tpc[i] \in states }

\* C1: at any time the number of download_link calls in flight (started and
\* not yet returned) is at most the concurrency limit.
C1_InFlightBounded == Cardinality(InFlight) <= max_workers

\* every slot of the pool is busy while a further task waits in the queue
C1_Witness == Cardinality(InFlight) = max_workers /\ work_queue # << >>

\* C2: one task is dispatched per list element and, when download_links has
\* finished, exactly one outcome per dispatched task has been collected.
C2_OneOutcomePerTask ==
  /\ submitted <= Len(links)
  /\ mainpc \notin { "makedirs", "submit" } =>
       /\ submitted = Len(links)
       /\ \A i \in Tasks : tpc[i] # "unsubmitted"
  /\ \A k, l \in 1 .. Len(results) : k # l => results[k] # results[l]
  /\ mainpc \in { "returned", "raised" } =>
       /\ Len(results) = Len(links)
       /\ Yielded = Tasks

\* C3: a call whose every attempt has failed has made exactly retries
\* requests, has appended exactly one line to the error log and has returned
\* a Failure outcome.
C3_AlwaysFailing ==
  /\ \A i \in Tasks : tpc[i] \in { "failure", "raised" } =>
       /\ requests_made[i] = retries
       /\ tpc[i] = "failure"
  /\ \A u \in URLs :
       EntriesNaming(u) = Cardinality(TasksOf(u, { "failure", "raised" }))

\* the retry notices 1..k in order
NoticesUpTo(k) == [n \in 1 .. k |-> n]

C4_AtSuccess ==
  \A i \in Tasks : tpc[i] = "success" =>
    /\ attempt[i] < retries
    /\ requests_made[i] = attempt[i] + 1
    /\ notices[i] = NoticesUpTo(attempt[i])
    /\ EntriesNaming(links[i]) = Cardinality(TasksOf(links[i], { "failure" }))

C4_NoFurtherAttempt ==
  \A i \in Tasks : tpc[i] = "success" =>
    /\ tpc'[i] = "success"
    /\ requests_made'[i] = requests_made[i]
    /\ notices'[i] = notices[i]

\* C4: a call whose first k attempts fail and whose attempt k+1 succeeds
\* returns Success after exactly k+1 requests with exactly k retry notices
\* printed, makes no further attempt and appends nothing to the error log.
C4_SuccessAfterRetries == [] C4_AtSuccess /\ [][C4_NoFurtherAttempt]_vars

\* the scenario: retries = 3, two failed attempts, then success
C4_Witness ==
  \E i \in Tasks :
    /\ tpc[i] = "success"
    /\ retries = 3
    /\ attempt[i] = 2
    /\ \E j \in Tasks : tpc[j] = "failure"

\* C5: when every attempt terminates, download_links completes normally with
\* every task finished, whichever tasks end in failure.
C5_BatchCompletes ==
  <>(mainpc = "returned" /\ \A i \in Tasks : tpc[i] \in Finished)

\* C6: no download_link call ends with an exception, so future.result()
\* never raises in download_links.
C6_NeverRaises ==
  /\ \A i \in Tasks : tpc[i] # "raised"
  /\ mainpc # "unwinding"

\* C7: no two running tasks have the same destination file open for writing.
C7_SingleWriter ==
  \A i, j \in Tasks :
    (i # j /\ tpc[i] = "write" /\ tpc[j] = "write")
      => local_filename[i] # local_filename[j]

\* C8: at most one worker is between opening and closing the error log.
C8_LogSerialized == Cardinality({ i \in Tasks : tpc[i] = "logwrite" }) <= 1

C9_LogMatchesFailures ==
  /\ Len(error_log) >= 1
  /\ error_log[1] = OldEntry
  /\ Len(BatchEntries) = Cardinality({ i \in Tasks : tpc[i] = "failure" })
  /\ \A u \in URLs : EntriesNaming(u) = Cardinality(TasksOf(u, { "failure" }))
  /\ \A k \in 1 .. Len(BatchEntries) :
       \E i \in Tasks :
         /\ tpc[i] = "failure"
         /\ BatchEntries[k].url = links[i]
         /\ BatchEntries[k].attempts = requests_made[i]

C9_AppendOnly ==
  /\ Len(error_log') >= Len(error_log)
  /\ SubSeq(error_log', 1, Len(error_log)) = error_log

\* C9: the error log only grows, its earlier lines stay as they were, the
\* lines added by the batch are one per task that ended in Failure (none for
\* a Success, none for a failed attempt that is retried), and each line names
\* that task's url and the number of attempts it made.
C9_LogAppendOnly == [] C9_LogMatchesFailures /\ [][C9_AppendOnly]_vars

\* one task failed finally and is logged, another succeeded after a retry
C9_Witness ==
  \E i, j \in Tasks :
    /\ tpc[i] = "failure"
    /\ tpc[j] = "success"
    /\ Len(notices[j]) > 0
    /\ Len(BatchEntries) = 1
\* the keyword of the latest fuzzy_match call and its scores
LastKeyword == keywords[kw_done]
LastScore(j) == partial_ratio[<< LastKeyword, page_links[j] >>]

\* the positions in page_links of the links that score above 0
Matching == { j \in 1 .. Len(page_links) : LastScore(j) > 0 }

\* link m is ranked before link j: a greater score, or the same score and an
\* earlier position in page_links
RankedBefore(m, j) ==
  \/ LastScore(m) > LastScore(j)
  \/ LastScore(m) = LastScore(j) /\ m < j

RankOf(j) == 1 + Cardinality({ m \in Matching : RankedBefore(m, j) })

\* the hrefs of all links that score above 0, best first, ties in list order
Ranked ==
  [k \in 1 .. Cardinality(Matching) |->
     page_links[CHOOSE j \in Matching : RankOf(j) = k].href]

IsPrefix(s, t) == Len(s) <= Len(t) /\ s = SubSeq(t, 1, Len(s))

\* C10 as stated: whatever topn is, fuzzy_match returns exactly the hrefs of
\* the links that score above 0, by score descending, ties in list order.
C10_ReturnsAllMatches == kw_done > 0 => matched_links = Ranked

\* C10, amended: fuzzy_match returns a prefix of the hrefs of the links that
\* score above 0 ordered by score descending with ties in list order, and the
\* whole of it when topn is None or at least the number of such links; every
\* href returned is the href of an input link.
C10_RankedPrefix ==
  kw_done > 0 =>
    /\ IsPrefix(matched_links, Ranked)
    /\ (~topn_arg.given \/ topn_arg.n >= Len(Ranked)) => matched_links = Ranked
    /\ \A k \in 1 .. Len(matched_links) :
         \E j \in 1 .. Len(page_links) : matched_links[k] = page_links[j].href

\* topn is None; of three links two tie above 0 and are both returned, and
\* the one scoring 0 is dropped
C10_Witness ==
  /\ kw_done > 0
  /\ ~topn_arg.given
  /\ Len(page_links) = 3
  /\ Len(matched_links) = 2
  /\ \E a, b \in Matching : a < b /\ LastScore(a) = LastScore(b)
                               /\ page_links[a].href # page_links[b].href
  /\ \E a \in 1 .. 3 : LastScore(a) = 0
\* what the latest call returns when topn is None
AllMatches == fuzzy_match(page_links, ScoreFor(LastKeyword), TopNone)

Min(a, b) == IF a < b THEN a ELSE b

\* C11 as stated: for every integer topn = k the call returns at most
\* min(k, matchCount) hrefs and a prefix of what it returns for topn = None.
C11_AtMostTopN ==
  (kw_done > 0 /\ topn_arg.given) =>
    /\ Len(matched_links) <= Min(topn_arg.n, Len(AllMatches))
    /\ IsPrefix(matched_links, AllMatches)

\* C11, amended: for every integer topn = k the call returns a prefix of what
\* it returns for topn = None, of at most min(k, matchCount) hrefs when k >= 0.
C11_PrefixOfAll ==
  (kw_done > 0 /\ topn_arg.given) =>
    /\ IsPrefix(matched_links, AllMatches)
    /\ topn_arg.n >= 0 =>
         Len(matched_links) <= Min(topn_arg.n, Len(AllMatches))

\* --topn 1 cuts a list of at least two matches down to its first
C11_Witness ==
  /\ kw_done > 0
  /\ topn_arg.given
  /\ topn_arg.n = 1
  /\ Len(AllMatches) >= 2
  /\ matched_links = << AllMatches[1] >>
\* the hrefs of a list that read_links keeps, as the strings of the file
RECURSIVE HttpTexts(_)
HttpTexts(hrefs) ==
  IF hrefs = << >> THEN << >>
  ELSE LET rest == HttpTexts(SubSeq(hrefs, 1, Len(hrefs) - 1))
           h == hrefs[Len(hrefs)]
       IN IF h.scheme \in { "http", "https" } THEN Append(rest, HrefText(h)) ELSE rest

Texts(hrefs) == [k \in 1 .. Len(hrefs) |-> HrefText(hrefs[k])]

\* the report holds one keyword's block and has been read back
OneBlockReadBack == phase = "download" /\ args_ranking /\ Len(keyword_links) = 1

C17_AbortsBeforeAnything ==
  phase = "exit" =>
    /\ exit_message # ""
    /\ links_to_download = << >>
    /\ submitted = 0
    /\ ~dir_exists
    /\ error_log = << OldEntry >>
    /\ kw_done = 0
    /\ keyword_links = << >>
    /\ output_file \in { Absent, OldReport }
C13_OneAttemptInFlight ==
  /\ \A i \in Tasks :
       requests_made[i] =
         IF tpc[i] \in { "open", "write", "success" } THEN attempt[i] + 1 ELSE attempt[i]
  /\ \A i \in Tasks :
       tpc[i] \in Running <=> \E w \in 1 .. num_threads : worker[w] = i
  /\ \A v, w \in DOMAIN worker : (v # w /\ worker[v] # 0) => worker[v] # worker[w]

C13_WorkerStays ==
  /\ \A w \in DOMAIN worker :
       (worker[w] # 0 /\ worker'[w] # worker[w]) =>
         /\ worker'[w] = 0
         /\ tpc'[worker[w]] \in Finished
  /\ \A i \in Tasks :
       requests_made'[i] # requests_made[i] =>
         /\ requests_made'[i] = requests_made[i] + 1
         /\ requests_made[i] = attempt[i]
         /\ tpc[i] = "get"

\* C13: a task has at most one attempt in flight, a further attempt starts
\* only when all earlier ones have failed, and the thread that started a task
\* leaves it only when the call has ended.
C13_SequentialAttempts == [] C13_OneAttemptInFlight /\ [][C13_WorkerStays]_vars

\* the only thread has taken the second task after the first was retried to
\* its end, and is retrying the second
C13_Witness ==
  /\ Len(links) = 2
  /\ num_threads = 1
  /\ tpc[1] \in Finished
  /\ attempt[1] >= 1
  /\ worker[1] = 2
  /\ attempt[2] >= 1

C14_DirectoryFirst ==
  /\ dir_exists <=> mainpc # "makedirs"
  /\ (submitted > 0 \/ \E i \in Tasks : tpc[i] # "unsubmitted") => dir_exists

C14_MainCreatesOnce ==
  /\ dir_exists' # dir_exists =>
       /\ mainpc = "makedirs"
       /\ submitted = 0
       /\ tpc' = tpc
  /\ mainpc' = "makedirs" => mainpc = "makedirs"

\* C14: the destination directory exists before any task is submitted or
\* started; it is created by download_links itself, once, and by no worker.
C14_DirectoryBeforeDispatch == [] C14_DirectoryFirst /\ [][C14_MainCreatesOnce]_vars

\* a worker has a destination file open and the directory is there
C14_Witness == dir_exists /\ \E i \in Tasks : tpc[i] = "write"

\* C15: every file a task opens for writing lies in the destination
\* directory.
C15_InsideDestination ==
  \A i \in Tasks : tpc[i] \in { "write", "success" } =>
    /\ local_filename[i].dir = path
    /\ local_filename[i].name \notin AbsoluteNames

C16_CountsAndOrder ==
  /\ Len(results) <= Cardinality({ i \in Tasks : tpc[i] \in Finished })
  /\ Cardinality({ i \in Tasks : tpc[i] \in Finished }) <= Len(links)
  /\ \A k \in 1 .. Len(results) : tpc[results[k]] \in { "success", "failure" }
  /\ \A k, l \in 1 .. Len(results) : k # l => results[k] # results[l]

\* C16: the outcomes reported are never more than the tasks completed nor
\* than n, and while download_links collects, a completed task that is not
\* yet reported can be reported next, whatever the earlier-submitted tasks
\* are doing.
C16_CompletionOrder ==
  /\ C16_CountsAndOrder
  /\ \A i \in Tasks :
       (mainpc = "as_completed" /\ tpc[i] \in { "success", "failure" }
          /\ i \notin Yielded) => ENABLED Collect(i)

\* the second task is reported while the first is still retrying
C16_Witness ==
  /\ Len(links) = 2
  /\ results = << 2 >>
  /\ tpc[1] \in Running
  /\ attempt[1] >= 1

C18_NoticesAtFailure ==
  /\ \A i \in Tasks : Len(notices[i]) < retries
  /\ \A i \in Tasks : tpc[i] = "failure" =>
       /\ attempt[i] = retries
       /\ notices[i] = NoticesUpTo(retries - 1)

C18_NoticeOnlyOnRetry ==
  \A i \in Tasks :
    notices'[i] # notices[i] =>
      /\ tpc[i] \in { "get", "open", "write" }
      /\ attempt'[i] = attempt[i] + 1
      /\ attempt'[i] < retries
      /\ tpc'[i] = "get"
      /\ notices'[i] = Append(notices[i], attempt'[i])

\* C18: a call that ends in Failure has printed the retry notices 1..N-1 in
\* order; a notice is printed only after a failed attempt with attempts
\* left, never after the last failed attempt or after a success.
C18_RetryNotices == [] C18_NoticesAtFailure /\ [][C18_NoticeOnlyOnRetry]_vars

\* a call with three attempts has failed after the notices 1 and 2
C18_Witness ==
  \E i \in Tasks :
    /\ tpc[i] = "failure"
    /\ retries = 3
    /\ notices[i] = << 1, 2 >>

\* C19: a call for a URL that ends in '/' never has the destination
\* directory itself open as its file and never returns Success under the
\* empty name; when it ends without Success it has made all its attempts,
\* appended one line to the error log and returned Failure.
C19_TrailingSlashFails ==
  \A i \in Tasks : links[i].last = "" =>
    /\ tpc[i] \in { "write", "success" } => local_filename[i].name # ""
    /\ tpc[i] \in { "failure", "raised" } =>
         /\ requests_made[i] = retries
         /\ tpc[i] = "failure"
         /\ EntriesNaming(links[i]) = Cardinality(TasksOf(links[i], { "failure", "raised" }))
====
